---- MODULE Spec2Model ----
(***************************************************************************)
(* A model of the Florence singing-synthesis engine:                       *)
(*   - FlorenceScoreDecoder._group_words_to_sections (the Segmenter),      *)
(*   - FlorenceCoder._process_word / _shift_pitch (the PitchRetargeter),   *)
(*   - FlorenceWaveConnecter._connect_section (the OverlapAddAssembler),   *)
(*   - FlorenceEngine.process_score (the PipelineOrchestrator).            *)
(*                                                                         *)
(* Numbers.  Python floats are modelled as exact rationals.                *)
(*   Segmenter: a time is an integer number of units of 1e-12 s, so that   *)
(*     TIME_TOLERANCE (1e-12 s) is 1 unit.                                 *)
(*   Assembler: a time is an integer number of ticks, TicksPerSec ticks to *)
(*     the second; a sample is an integer, and the fade lengths of the     *)
(*     model (at most 2) keep the linear fades integral.                   *)
(*   Retargeter: a frequency is a fraction <<num, den>> of Hz.             *)
(***************************************************************************)
EXTENDS Integers, Sequences, FiniteSets, TLC

VARIABLES
    \* ---- Segmenter (FlorenceScoreDecoder) ----
    words,          \* the times of the Words as _extract_words built them
    wtime,          \* Word.time of every input Word object, as it is now
    sections,       \* the local `sections`: Section records over Word indices
    current_batch,  \* the local `current_batch`: Word indices
    segIdx,         \* position of the for-loop over words[1:]
    segPc,          \* "extract" | "loop" | "done" | "error"
    segErr          \* the raised ValueError's content, or NoErr

VARIABLES
    \* ---- PitchRetargeter (FlorenceCoder) ----
    cWords,         \* the Words of the song: [pitch, oriWave, pitchedWave]
    cInput,         \* the Words as they were when process_song was called
    cIdx,           \* position of process_song's loop over the Words
    cPc,            \* "run" | "done" | "raised"
    cLog,           \* the last _process_word call: vocoder calls made, the way out
    \* ---- PitchRetargeter, a single _process_word call ----
    pwWord,         \* the Word
    pwInput,        \* the Word as it was at the call
    pwPc,           \* "call" | "returned" | "raised"
    pwLog           \* what the call handed to the vocoder and got from it

VARIABLES
    \* ---- OverlapAddAssembler (FlorenceWaveConnecter), one _connect_section ----
    sample_rate,    \* context.sample_rate
    wordList,       \* section.wordList: [start, end, pitch, oriWave, pitchedWave]
    connInput,      \* section.wordList as it was when _connect_section was called
    canvas,         \* the local `canvas`
    connIdx,        \* position of the loop over section.wordList
    connPc,         \* "call" | "mix" | "done" | "raised"
    placed,         \* one record per Word mixed so far, in order
    sectionSrc      \* section.sectionSrc

VARIABLES
    \* ---- PipelineOrchestrator (FlorenceEngine), one process_score ----
    engAttrs,       \* the collaborators that are attributes of the engine object
    scoreExists,    \* os.path.exists(score_path)
    decoded,        \* what decoder.decode_score does: None (raises) or the song
    collab,         \* whether process_song, connect_song, generate_output succeed
    song,           \* the song's Words, Sections and Tracks flattened: [tts, oriWave]
    synthIdx,       \* position of generate_song_speech's loops over the Words
    engPc,          \* "call" | "synthesize" | "retarget" | "assemble" | "export"
                    \* | "returned" | "raised"
    stagesDone,     \* the stages that have completed, in order
    engResult,      \* what process_score returned
    engErr          \* the stage whose exception left process_score, or None

segVars == <<words, wtime, sections, current_batch, segIdx, segPc, segErr>>
coderVars == <<cWords, cInput, cIdx, cPc, cLog>>
wordVars == <<pwWord, pwInput, pwPc, pwLog>>
connVars ==
    <<sample_rate, wordList, connInput, canvas, connIdx, connPc, placed, sectionSrc>>

engVars ==
    <<engAttrs, scoreExists, decoded, collab, song, synthIdx, engPc, stagesDone,
      engResult, engErr>>

vars == <<segVars, coderVars, wordVars, connVars, engVars>>

\* an optional value: Python's None, or a value that is present
None == <<>>
Some(x) == <<x>>
Val(o) == o[1]

----------------------------------------------------------------------------
(***************************************************************************)
(* Segmenter                                                               *)
(***************************************************************************)

\* bounds of the Segmenter's inputs
MaxWords == 4
MaxTime == 4

\* FlorenceScoreDecoder.TIME_TOLERANCE = 1e-12, in units of 1e-12 s
TIME_TOLERANCE == 1

NoErr == [i |-> -1, j |-> -1, end |-> -1, start |-> -1]

\* Time(start, end) as _create_word_from_event builds it: end = start + duration,
\* with a duration >= 0
Times == {t \in [start : 0..MaxTime, end : 0..MaxTime] : t.start <= t.end}

\* part.flatten().secondsMap yields the events by ascending offset
SortedByStart(ws) == \A i \in 1..(Len(ws) - 1) : ws[i].start <= ws[i + 1].start

\* time_gap > self.TIME_TOLERANCE
IsBreakGe(prevEnd, curStart) == curStart - prevEnd >= TIME_TOLERANCE
IsBreak(prevEnd, curStart) == curStart - prevEnd > TIME_TOLERANCE

\* overlap > self.TIME_TOLERANCE
IsOverlapGe(curEnd, nextStart) == curEnd - nextStart >= TIME_TOLERANCE
IsOverlap(curEnd, nextStart) == curEnd - nextStart > TIME_TOLERANCE

\* _check_overlap: the 0-based position i, in the list it is given, of the first
\* pair (i, i+1) that overlaps; -1 when it returns without raising
check_overlap(batch, t) ==
    LET bad == {i \in 1..(Len(batch) - 1) :
                    IsOverlap(t[batch[i]].end, t[batch[i + 1]].start)}
    IN IF Len(batch) < 2 \/ bad = {}
       THEN -1
       ELSE (CHOOSE i \in bad : \A k \in bad : i <= k) - 1

\* _normalnize_time: current_word.time.end = next_word.time.start, in place
normalnize_skip(batch, t) == t
normalnize_time(batch, t) ==
    [w \in DOMAIN t |->
        IF \E k \in 1..(Len(batch) - 1) : batch[k] = w
        THEN LET k == CHOOSE k \in 1..(Len(batch) - 1) : batch[k] = w
             IN [t[w] EXCEPT !.end = t[batch[k + 1]].start]
        ELSE t[w]]

\* _create_validated_section: check, then normalize, then build the Section
create_validated_section(batch, t) ==
    LET i == check_overlap(batch, t)
    IN IF i >= 0
       THEN [raised |-> TRUE,
             err |-> [i |-> i, j |-> i + 1,
                      end |-> t[batch[i + 1]].end,
                      start |-> t[batch[i + 2]].start],
             time |-> t,
             section |-> None]
       ELSE LET nt == normalnize_time(batch, t)
            IN [raised |-> FALSE,
                err |-> NoErr,
                time |-> nt,
                section |-> [wordList |-> batch,
                             sectionStart |-> nt[batch[1]].start]]

SegInit ==
    /\ words = <<>>
    /\ wtime = <<>>
    /\ sections = <<>>
    /\ current_batch = <<>>
    /\ segIdx = 0
    /\ segPc = "extract"
    /\ segErr = NoErr

\* _extract_words, one event of the secondsMap: a Word is appended; the events
\* come by ascending start time
ExtractWord ==
    /\ segPc = "extract"
    /\ Len(words) < MaxWords
    /\ \E t \in Times :
          /\ SortedByStart(Append(words, t))
          /\ words' = Append(words, t)
          /\ wtime' = Append(wtime, t)
    /\ UNCHANGED <<sections, current_batch, segIdx, segPc, segErr>>
    /\ UNCHANGED <<coderVars, wordVars, connVars, engVars>>

\* lines 164-168: the empty input returns at once; else the first batch opens
GroupEnter ==
    /\ segPc = "extract"
    /\ IF Len(words) = 0
       THEN /\ segPc' = "done"
            /\ UNCHANGED <<current_batch, segIdx>>
       ELSE /\ segPc' = "loop"
            /\ current_batch' = <<1>>
            /\ segIdx' = 2
    /\ UNCHANGED <<words, wtime, sections, segErr>>
    /\ UNCHANGED <<coderVars, wordVars, connVars, engVars>>

\* lines 171-184: one iteration of the loop over words[1:]
GroupStep ==
    /\ segPc = "loop"
    /\ segIdx <= Len(words)
    /\ LET previous_word == current_batch[Len(current_batch)]
       IN IF IsBreak(wtime[previous_word].end, wtime[segIdx].start)
          THEN LET r == create_validated_section(current_batch, wtime)
               IN IF r.raised
                  THEN /\ segPc' = "error"
                       /\ segErr' = r.err
                       /\ UNCHANGED <<wtime, sections, current_batch, segIdx>>
                  ELSE /\ sections' = Append(sections, r.section)
                       /\ wtime' = r.time
                       /\ current_batch' = <<segIdx>>
                       /\ segIdx' = segIdx + 1
                       /\ UNCHANGED <<segPc, segErr>>
          ELSE /\ current_batch' = Append(current_batch, segIdx)
               /\ segIdx' = segIdx + 1
               /\ UNCHANGED <<wtime, sections, segPc, segErr>>
    /\ UNCHANGED words
    /\ UNCHANGED <<coderVars, wordVars, connVars, engVars>>

\* lines 187-190: the last batch
GroupFinishNoFlush ==
    /\ segPc = "loop"
    /\ segIdx > Len(words)
    /\ segPc' = "done"
    /\ UNCHANGED <<words, wtime, sections, current_batch, segIdx, segErr>>
    /\ UNCHANGED <<coderVars, wordVars, connVars, engVars>>

GroupFinish ==
    /\ segPc = "loop"
    /\ segIdx > Len(words)
    /\ IF current_batch # <<>>
       THEN LET r == create_validated_section(current_batch, wtime)
            IN IF r.raised
               THEN /\ segPc' = "error"
                    /\ segErr' = r.err
                    /\ UNCHANGED <<wtime, sections>>
               ELSE /\ sections' = Append(sections, r.section)
                    /\ wtime' = r.time
                    /\ segPc' = "done"
                    /\ UNCHANGED segErr
       ELSE /\ segPc' = "done"
            /\ UNCHANGED <<wtime, sections, segErr>>
    /\ UNCHANGED <<words, current_batch, segIdx>>
    /\ UNCHANGED <<coderVars, wordVars, connVars, engVars>>

----------------------------------------------------------------------------
(***************************************************************************)
(* PitchRetargeter                                                         *)
(***************************************************************************)

\* bounds of the retargeter's inputs and of the vocoder's answers
MaxNotes == 2
MaxRawLen == 2
MaxFrames == 2

\* np.clip(modified_f0, 50, 1600)
F0_FLOOR == 50
F0_CEIL == 1600

\* a waveform of n samples, all different: 1, 2, .., n
Ramp(n) == [i \in 1..n |-> i]

\* Word.oriWave after the synthesis stage: absent, empty, or n samples
RawWaves == {None} \cup {Some(Ramp(n)) : n \in 0..MaxRawLen}

\* Word.pitch: absent, not positive, or a frequency in Hz
PitchVals == {None} \cup {Some(f) : f \in {0, 20, 4000}}

\* a Word before the retargeter has seen it
WordStates == [pitch : PitchVals, oriWave : RawWaves, pitchedWave : {None}]

\* the vocoder's calls, in the order _shift_pitch makes them
CallOrder == <<"dio", "stonemask", "cheaptrick", "d4c", "synthesize">>

\* what the vocoder does during one _shift_pitch: the call that fails (or none),
\* the contour that stonemask returns, the waveform that synthesize returns
F0Vals == {0, 60, 900}
Contours == [1..MaxFrames -> F0Vals]
SynthOuts ==
    {[i \in 1..k |-> 7] : k \in {0, MaxRawLen - 1, MaxRawLen, MaxRawLen + 1}}
Vocoder ==
    \* an analysis call fails: nothing it would have returned later is read
    {[failAt |-> a, f0 |-> [i \in 1..MaxFrames |-> 0], y |-> <<>>] :
        a \in {"dio", "stonemask", "cheaptrick", "d4c"}}
    \* synthesize fails, if it is called at all
    \cup {[failAt |-> "synthesize", f0 |-> c, y |-> <<>>] : c \in Contours}
    \* no call fails
    \cup [failAt : {"none"}, f0 : Contours, y : SynthOuts]

\* the vocoder of a _process_word call that never reaches it
NoVocoder == [failAt |-> "none", f0 |-> [i \in 1..MaxFrames |-> 0], y |-> <<>>]

\* the record of a _process_word call that made no vocoder call; path is the
\* way out of the call: "skip" (lines 43, 48), "unvoiced" (line 92), "synth"
\* (line 116), "fallback" (line 56), "raise" (an exception leaves the call)
NoLog == [calls |-> <<>>, failed |-> FALSE, path |-> "skip", f0 |-> None,
          target |-> None, synthF0 |-> None, y |-> None]

RECURSIVE SumSeq(_)
SumSeq(q) == IF q = <<>> THEN 0 ELSE q[1] + SumSeq(Tail(q))

\* valid_f0 = f0[f0 > 0]
valid_f0(f0) == SelectSeq(f0, LAMBDA v : v > 0)

\* np.clip(x, 50, 1600) of the fraction num/den, den > 0
ClipNoCeil(num, den) ==
    IF num < F0_FLOOR * den THEN <<F0_FLOOR * den, den>> ELSE <<num, den>>
Clip(num, den) ==
    IF num < F0_FLOOR * den THEN <<F0_FLOOR * den, den>>
    ELSE IF num > F0_CEIL * den THEN <<F0_CEIL * den, den>>
    ELSE <<num, den>>

\* lines 94-103: modified_f0 = f0 * (target_freq / mean(valid_f0)), then
\* np.where(modified_f0 > 0, np.clip(modified_f0, 50, 1600), 0); every frame is
\* the fraction <<num, den>> with den = sum(valid_f0)
modified_f0(f0, target_freq) ==
    LET v == valid_f0(f0)
        den == SumSeq(v)
    IN [i \in 1..Len(f0) |->
           LET num == f0[i] * target_freq * Len(v)
           IN IF num > 0 THEN Clip(num, den) ELSE <<0, den>>]

\* lines 110-114: the synthesized waveform cut or zero-padded to n samples
AlignCutOnly(y, n) == IF Len(y) > n THEN SubSeq(y, 1, n) ELSE y
Align(y, n) ==
    IF Len(y) > n THEN SubSeq(y, 1, n)
    ELSE y \o [i \in 1..(n - Len(y)) |-> 0]

CallsUpTo(name) ==
    LET k == CHOOSE i \in 1..Len(CallOrder) : CallOrder[i] = name
    IN SubSeq(CallOrder, 1, k)

\* _shift_pitch(audio, target_freq) against a vocoder behaving as voc
shift_pitch(audio, target_freq, voc) ==
    IF voc.failAt \in {"dio", "stonemask", "cheaptrick", "d4c"}
    THEN [raised |-> TRUE, wave |-> None,
          log |-> [NoLog EXCEPT !.calls = CallsUpTo(voc.failAt), !.failed = TRUE,
                                !.path = "raise", !.target = Some(target_freq)]]
    ELSE IF Len(valid_f0(voc.f0)) = 0
    THEN [raised |-> FALSE, wave |-> Some(audio),
          log |-> [NoLog EXCEPT !.calls = CallsUpTo("d4c"), !.path = "unvoiced",
                                !.f0 = Some(voc.f0), !.target = Some(target_freq)]]
    ELSE LET mod == modified_f0(voc.f0, target_freq)
         IN IF voc.failAt = "synthesize"
            THEN [raised |-> TRUE, wave |-> None,
                  log |-> [NoLog EXCEPT !.calls = CallOrder, !.failed = TRUE,
                                        !.path = "raise",
                                        !.f0 = Some(voc.f0),
                                        !.target = Some(target_freq),
                                        !.synthF0 = Some(mod)]]
            ELSE [raised |-> FALSE, wave |-> Some(Align(voc.y, Len(audio))),
                  log |-> [NoLog EXCEPT !.calls = CallOrder, !.path = "synth",
                                        !.f0 = Some(voc.f0),
                                        !.target = Some(target_freq),
                                        !.synthF0 = Some(mod), !.y = Some(voc.y)]]

\* lines 53-56: the except clause of _process_word
except_reraise(word) == [raised |-> TRUE, path |-> "raise", word |-> word]
except_fallback(word) ==
    [raised |-> FALSE, path |-> "fallback",
     word |-> [word EXCEPT !.pitchedWave = word.oriWave]]

\* lines 42-48: the two guards that make _process_word return at once
SkipsNegativeOnly(word) ==
    \/ word.oriWave = None
    \/ Len(Val(word.oriWave)) = 0
    \/ word.pitch = None
    \/ Val(word.pitch) < 0
Skips(word) ==
    \/ word.oriWave = None
    \/ Len(Val(word.oriWave)) = 0
    \/ word.pitch = None
    \/ Val(word.pitch) <= 0

\* _process_word(word) against a vocoder behaving as voc
process_word(word, voc) ==
    IF Skips(word)
    THEN [raised |-> FALSE, word |-> word, log |-> NoLog]
    ELSE LET r == shift_pitch(Val(word.oriWave), Val(word.pitch), voc)
         IN IF r.raised
            THEN LET h == except_fallback(word)
                 IN [raised |-> h.raised, word |-> h.word,
                     log |-> [r.log EXCEPT !.path = h.path]]
            ELSE [raised |-> FALSE,
                  word |-> [word EXCEPT !.pitchedWave = r.wave],
                  log |-> r.log]

\* the vocoder behaviours that a _process_word(word) call can meet
VocoderFor(word) == IF Skips(word) THEN {NoVocoder} ELSE Vocoder

\* of the record of a call: the calls made, whether one failed, the way out
Brief(log) == [calls |-> log.calls, failed |-> log.failed, path |-> log.path]

\* what _process_word(word) can do, over the vocoder's behaviours
Outcomes(word) ==
    {[raised |-> o.raised, word |-> o.word, log |-> Brief(o.log)] :
        o \in {process_word(word, voc) : voc \in VocoderFor(word)}}

\* Outcomes, word by word
WordOutcomes == [w \in WordStates |-> Outcomes(w)]

\* a single call of _process_word
WordInit ==
    /\ pwWord \in WordStates
    /\ pwInput = pwWord
    /\ pwPc = "call"
    /\ pwLog = NoLog

WordIdle ==
    /\ pwWord = [pitch |-> None, oriWave |-> None, pitchedWave |-> None]
    /\ pwInput = pwWord
    /\ pwPc = "idle"
    /\ pwLog = NoLog

ProcessOneWord ==
    /\ pwPc = "call"
    /\ \E voc \in VocoderFor(pwWord) :
          LET r == process_word(pwWord, voc)
          IN /\ pwWord' = r.word
             /\ pwLog' = r.log
             /\ pwPc' = IF r.raised THEN "raised" ELSE "returned"
    /\ UNCHANGED pwInput
    /\ UNCHANGED <<segVars, coderVars, connVars, engVars>>

\* process_song over the Words of a song
CoderInit ==
    /\ cWords \in UNION {[1..k -> WordStates] : k \in 0..MaxNotes}
    /\ cInput = cWords
    /\ cIdx = 1
    /\ cPc = "run"
    /\ cLog = Brief(NoLog)

\* process_song, one iteration of the loop over the Words: _process_word(word)
ProcessWord ==
    /\ cPc = "run"
    /\ cIdx <= Len(cWords)
    /\ \E r \in WordOutcomes[cWords[cIdx]] :
          /\ cWords' = [cWords EXCEPT ![cIdx] = r.word]
          /\ cLog' = r.log
          /\ IF r.raised
             THEN cPc' = "raised" /\ UNCHANGED cIdx
             ELSE cIdx' = cIdx + 1 /\ UNCHANGED cPc
    /\ UNCHANGED cInput
    /\ UNCHANGED <<segVars, wordVars, connVars, engVars>>

\* process_song returns the song
ProcessSongReturn ==
    /\ cPc = "run"
    /\ cIdx > Len(cWords)
    /\ cPc' = "done"
    /\ UNCHANGED <<cWords, cInput, cIdx, cLog>>
    /\ UNCHANGED <<segVars, wordVars, connVars, engVars>>

----------------------------------------------------------------------------
(***************************************************************************)
(* OverlapAddAssembler                                                     *)
(***************************************************************************)

\* bounds of the assembler's inputs
MaxConnNotes == 2
MaxTick == 2
MaxConnLen == 4

\* the unit of the assembler's times: ticks to the second
TicksPerSec == 10

\* duration = end_time - base_time + 0.5: the 0.5 s, in ticks
TailTicks == TicksPerSec \div 2

\* fade_samples = int(0.005 * sample_rate): 0.005 s is 1/200 s
FadesPerSec == 200

\* context.sample_rate, in samples to the second
SampleRates == {6, 200, 400}

\* round(x) of the fraction n/d, n >= 0, d > 0: to the nearest integer, a tie
\* to the even one
RoundDiv(n, d) ==
    LET q == n \div d
        r == n % d
    IN IF 2 * r < d THEN q
       ELSE IF 2 * r > d THEN q + 1
       ELSE IF q % 2 = 0 THEN q ELSE q + 1

\* int(x) of the fraction n/d, d > 0: towards zero
IntDiv(n, d) == IF n >= 0 THEN n \div d ELSE -((-n) \div d)

\* a Word of a Section after synthesis and retargeting: no waveform, an oriWave
\* alone, or an oriWave with a pitchedWave as long
ConnWaves ==
    {[pitch |-> None, oriWave |-> None, pitchedWave |-> None]}
    \cup {[pitch |-> Some(0), oriWave |-> Some(Ramp(n)), pitchedWave |-> None] :
             n \in 0..MaxConnLen}
    \cup {[pitch |-> Some(20), oriWave |-> Some(Ramp(MaxConnLen)),
           pitchedWave |-> Some([i \in 1..MaxConnLen |-> 7])]}

\* the times of the Words of a Section as the Segmenter leaves them: starts
\* ascending, every end but the last equal to the next start
SectionTimes(k) ==
    {t \in [1..k -> [start : 0..MaxTick, end : 0..MaxTick]] :
        /\ \A i \in 1..(k - 1) :
              t[i].start <= t[i + 1].start /\ t[i].end = t[i + 1].start
        /\ \A i \in 1..k : t[i].start <= t[i].end}

\* line 51: the waveform _connect_section mixes for a Word
source_oriOnly(word) == word.oriWave
source_wave(word) ==
    IF word.pitchedWave # None THEN word.pitchedWave ELSE word.oriWave

\* a buffer of samples: the oriWave or the pitchedWave of the Word at a position
\* of section.wordList, or an array allocated during the call
FreshBuffer == <<"fresh", 0>>

\* line 51: the buffer that source_wave names
source_buffer(word, idx) ==
    IF word.pitchedWave # None THEN <<"pitchedWave", idx>> ELSE <<"oriWave", idx>>

\* line 45: total_samples = int(duration * sample_rate)
total_samples(base_time, end_time, sr) ==
    IntDiv((end_time - base_time + TailTicks) * sr, TicksPerSec)

\* line 60: start_idx = int(relative_start_time * sample_rate)
start_idx_round(start, base_time, sr) == RoundDiv((start - base_time) * sr, TicksPerSec)
start_idx(start, base_time, sr) == IntDiv((start - base_time) * sr, TicksPerSec)

\* lines 64-66: the canvas, zero-padded up to end_idx when it is shorter
grow_never(cv, end_idx) == cv
grow(cv, end_idx) ==
    IF end_idx > Len(cv) THEN cv \o [i \in 1..(end_idx - Len(cv)) |-> 0] ELSE cv

\* np.linspace(a, b, n)[k] times x, for (a, b) = (0, 1) and (1, 0), k = 1..n;
\* np.linspace(a, b, 1) is [a].  The division is exact for n <= 2, the fade
\* lengths that SampleRates produce.
times_fade_in(x, k, n) == IF n = 1 THEN 0 ELSE (x * (k - 1)) \div (n - 1)
times_fade_out(x, k, n) == IF n = 1 THEN x ELSE (x * (n - k)) \div (n - 1)

\* lines 84-88: the fade length for a waveform of len samples
fade_samples(len, sr) ==
    LET f == IntDiv(sr, FadesPerSec)
    IN IF len < f * 2 THEN len \div 2 ELSE f

\* line 94: processed = wave.copy() names a new array
wave_alias(buffer) == buffer
wave_copy(buffer) == FreshBuffer

\* lines 90-94: the buffer _apply_declick_envelope returns, and multiplies in
\* place when the fade length n is not 0
envelope_buffer(buffer, n) == IF n = 0 THEN buffer ELSE wave_copy(buffer)

\* section.wordList after samples are written into a buffer
store(wl, buffer, samples) ==
    IF buffer[1] = "oriWave"
    THEN [wl EXCEPT ![buffer[2]].oriWave = Some(samples)]
    ELSE IF buffer[1] = "pitchedWave"
    THEN [wl EXCEPT ![buffer[2]].pitchedWave = Some(samples)]
    ELSE wl

\* _apply_declick_envelope(wave): the waveform itself when the fade length is 0,
\* else a copy with processed[:n] *= fade_in and processed[-n:] *= fade_out
apply_declick_envelope(wave, sr) ==
    LET n == fade_samples(Len(wave), sr)
        len == Len(wave)
        faded_in == [i \in 1..len |->
                        IF i <= n THEN times_fade_in(wave[i], i, n) ELSE wave[i]]
    IN IF n = 0
       THEN wave
       ELSE [i \in 1..len |->
                IF i > len - n
                THEN times_fade_out(faded_in[i], i - (len - n), n)
                ELSE faded_in[i]]

\* a bound of the slice cv[a:b] as numpy reads it: from the end when negative,
\* and inside 0..len(cv)
slice_bound(i, len) ==
    IF i < 0 THEN (IF len + i < 0 THEN 0 ELSE len + i)
    ELSE IF i > len THEN len ELSE i

\* line 74: canvas[start_idx:end_idx] += processed_wave; numpy raises when the
\* slice and the waveform differ in length
mix_overwrite(cv, a, b, processed) ==
    LET lo == slice_bound(a, Len(cv))
        hi == slice_bound(b, Len(cv))
        n == IF hi > lo THEN hi - lo ELSE 0
    IN IF n # Len(processed)
       THEN [raised |-> TRUE, canvas |-> cv, mixed |-> 0]
       ELSE [raised |-> FALSE,
             canvas |-> [i \in 1..Len(cv) |->
                            IF lo < i /\ i <= hi THEN processed[i - lo] ELSE cv[i]],
             mixed |-> n]

mix(cv, a, b, processed) ==
    LET lo == slice_bound(a, Len(cv))
        hi == slice_bound(b, Len(cv))
        n == IF hi > lo THEN hi - lo ELSE 0
    IN IF n # Len(processed)
       THEN [raised |-> TRUE, canvas |-> cv, mixed |-> 0]
       ELSE [raised |-> FALSE,
             canvas |-> [i \in 1..Len(cv) |->
                            IF lo < i /\ i <= hi THEN cv[i] + processed[i - lo]
                            ELSE cv[i]],
             mixed |-> n]

ConnInit ==
    /\ sample_rate \in SampleRates
    /\ \E k \in 0..MaxConnNotes :
          \E t \in SectionTimes(k), w \in [1..k -> ConnWaves] :
              wordList = [i \in 1..k |->
                             [start |-> t[i].start, end |-> t[i].end,
                              pitch |-> w[i].pitch,
                              oriWave |-> w[i].oriWave,
                              pitchedWave |-> w[i].pitchedWave]]
    /\ connInput = wordList
    /\ canvas = <<>>
    /\ connIdx = 0
    /\ connPc = "call"
    /\ placed = <<>>
    /\ sectionSrc = None

ConnIdle ==
    /\ sample_rate = 0
    /\ wordList = <<>>
    /\ connInput = <<>>
    /\ canvas = <<>>
    /\ connIdx = 0
    /\ connPc = "idle"
    /\ placed = <<>>
    /\ sectionSrc = None

\* lines 32-46: an empty Section returns at once; else the canvas is allocated
ConnectEnter ==
    /\ connPc = "call"
    /\ IF Len(wordList) = 0
       THEN /\ connPc' = "done"
            /\ UNCHANGED <<canvas, connIdx>>
       ELSE LET base_time == wordList[1].start
                end_time == wordList[Len(wordList)].end
            IN /\ canvas' = [i \in 1..total_samples(base_time, end_time, sample_rate) |-> 0]
               /\ connIdx' = 1
               /\ connPc' = "mix"
    /\ UNCHANGED <<sample_rate, wordList, connInput, placed, sectionSrc>>
    /\ UNCHANGED <<segVars, coderVars, wordVars, engVars>>

\* lines 49-74: one iteration of the loop over section.wordList
MixWord ==
    /\ connPc = "mix"
    /\ connIdx <= Len(wordList)
    /\ LET word == wordList[connIdx]
           src == source_wave(word)
       IN IF src = None \/ Len(Val(src)) = 0
          THEN /\ connIdx' = connIdx + 1
               /\ UNCHANGED <<wordList, canvas, connPc, placed>>
          ELSE LET a == start_idx(word.start, wordList[1].start, sample_rate)
                   b == a + Len(Val(src))
                   grown == grow(canvas, b)
                   n == fade_samples(Len(Val(src)), sample_rate)
                   processed == apply_declick_envelope(Val(src), sample_rate)
                   written == envelope_buffer(source_buffer(word, connIdx), n)
                   r == mix(grown, a, b, processed)
               IN /\ wordList' = store(wordList, written, processed)
                  /\ canvas' = r.canvas
                  /\ placed' = Append(placed,
                        [word |-> connIdx, source |-> Val(src),
                         start_idx |-> a, end_idx |-> b,
                         canvasLen |-> Len(grown),
                         fade |-> n,
                         processed |-> processed, mixed |-> r.mixed])
                  /\ IF r.raised
                     THEN connPc' = "raised" /\ UNCHANGED connIdx
                     ELSE connIdx' = connIdx + 1 /\ UNCHANGED connPc
    /\ UNCHANGED <<sample_rate, connInput, sectionSrc>>
    /\ UNCHANGED <<segVars, coderVars, wordVars, engVars>>

\* line 78: section.sectionSrc = canvas
ConnectFinish ==
    /\ connPc = "mix"
    /\ connIdx > Len(wordList)
    /\ sectionSrc' = Some(canvas)
    /\ connPc' = "done"
    /\ UNCHANGED <<sample_rate, wordList, connInput, canvas, connIdx, placed>>
    /\ UNCHANGED <<segVars, coderVars, wordVars, engVars>>

----------------------------------------------------------------------------
(***************************************************************************)
(* PipelineOrchestrator                                                    *)
(***************************************************************************)

\* bound of the orchestrator's input
MaxScoreNotes == 3

\* FlorenceEngine.__init__, lines 46-53: the collaborators it assigns; the
\* assignments of coder, wave_connector and output_generator are comments
InitAttrs == {"decoder", "speech_generator"}

\* the stages of process_score after decoding, with the attribute each one
\* calls
StageAttr ==
    [synthesize |-> "speech_generator", retarget |-> "coder",
     assemble |-> "wave_connector", export |-> "output_generator"]

\* the value generate_output returns
OutputPath == "output.wav"

\* the songs decode_score returns: at least one Word (the decoder raises on a
\* part without Words), each with what the TTS engine does for it
Songs ==
    UNION {[1..k -> [tts : {"ok", "raise"}, oriWave : {None}]] : k \in 1..MaxScoreNotes}

\* the stage after a stage, "returned" after the last
NextStage(stage) ==
    IF stage = "synthesize" THEN "retarget"
    ELSE IF stage = "retarget" THEN "assemble"
    ELSE IF stage = "assemble" THEN "export"
    ELSE "returned"

\* self.<attr>.<method>(song) inside try / except Exception: an attribute the
\* object does not have raises AttributeError, which the except clause turns
\* into the stage's Exception like any failure of the collaborator
call_attr(attrs, attr, ok) == attr \in attrs /\ ok

EngInit ==
    /\ engAttrs = InitAttrs
    /\ scoreExists \in BOOLEAN
    /\ decoded \in {None} \cup {Some(sg) : sg \in Songs}
    /\ collab \in [retarget : BOOLEAN, assemble : BOOLEAN, export : BOOLEAN]
    /\ song = <<>>
    /\ synthIdx = 0
    /\ engPc = "call"
    /\ stagesDone = <<>>
    /\ engResult = None
    /\ engErr = None

EngIdle ==
    /\ engAttrs = {}
    /\ scoreExists = FALSE
    /\ decoded = None
    /\ collab = [retarget |-> FALSE, assemble |-> FALSE, export |-> FALSE]
    /\ song = <<>>
    /\ synthIdx = 0
    /\ engPc = "idle"
    /\ stagesDone = <<>>
    /\ engResult = None
    /\ engErr = None

\* process_score, lines 85-94: the file check and _decode_score
DecodeScore ==
    /\ engPc = "call"
    /\ IF ~scoreExists
       THEN /\ engPc' = "raised"
            /\ engErr' = Some("exists")
            /\ UNCHANGED <<song, synthIdx, stagesDone>>
       ELSE IF "decoder" \notin engAttrs \/ decoded = None
       THEN /\ engPc' = "raised"
            /\ engErr' = Some("decode")
            /\ UNCHANGED <<song, synthIdx, stagesDone>>
       ELSE /\ song' = Val(decoded)
            /\ synthIdx' = 1
            /\ stagesDone' = Append(stagesDone, "decode")
            /\ engPc' = "synthesize"
            /\ UNCHANGED engErr
    /\ UNCHANGED <<engAttrs, scoreExists, decoded, collab, engResult>>
    /\ UNCHANGED <<segVars, coderVars, wordVars, connVars>>

\* _process_section, lines 79-81: word.oriWave = the TTS engine's waveform; an
\* exception of the TTS engine is caught nowhere up to process_score's caller
SynthesizeWord ==
    /\ engPc = "synthesize"
    /\ synthIdx <= Len(song)
    /\ IF "speech_generator" \notin engAttrs \/ song[synthIdx].tts = "raise"
       THEN /\ engPc' = "raised"
            /\ engErr' = Some("synthesize")
            /\ UNCHANGED <<song, synthIdx>>
       ELSE /\ song' = [song EXCEPT ![synthIdx].oriWave = Some(Ramp(1))]
            /\ synthIdx' = synthIdx + 1
            /\ UNCHANGED <<engPc, engErr>>
    /\ UNCHANGED <<engAttrs, scoreExists, decoded, collab, stagesDone, engResult>>
    /\ UNCHANGED <<segVars, coderVars, wordVars, connVars>>

\* generate_song_speech, lines 74-75, and process_score, lines 98-99
SynthesizeReturn ==
    /\ engPc = "synthesize"
    /\ synthIdx > Len(song)
    /\ stagesDone' = Append(stagesDone, "synthesize")
    /\ engPc' = "retarget"
    /\ UNCHANGED <<engAttrs, scoreExists, decoded, collab, song, synthIdx,
                   engResult, engErr>>
    /\ UNCHANGED <<segVars, coderVars, wordVars, connVars>>

\* process_score, lines 101-117, with _adjust_pitch, _smooth_connect and
\* _generate_output (lines 127-146): the stage at engPc calls its collaborator
\* and either completes or raises the stage's Exception; the last stage's
\* value is returned
CallStage ==
    /\ engPc \in {"retarget", "assemble", "export"}
    /\ IF call_attr(engAttrs, StageAttr[engPc], collab[engPc])
       THEN /\ stagesDone' = Append(stagesDone, engPc)
            /\ engPc' = NextStage(engPc)
            /\ engResult' = IF engPc = "export" THEN Some(OutputPath) ELSE engResult
            /\ UNCHANGED engErr
       ELSE /\ engPc' = "raised"
            /\ engErr' = Some(engPc)
            /\ UNCHANGED <<stagesDone, engResult>>
    /\ UNCHANGED <<engAttrs, scoreExists, decoded, collab, song, synthIdx>>
    /\ UNCHANGED <<segVars, coderVars, wordVars, connVars>>

----------------------------------------------------------------------------
(***************************************************************************)
(* Specifications: one per component, the other components at rest         *)
(***************************************************************************)

SegIdle ==
    /\ words = <<>>
    /\ wtime = <<>>
    /\ sections = <<>>
    /\ current_batch = <<>>
    /\ segIdx = 0
    /\ segPc = "idle"
    /\ segErr = NoErr

CoderIdle ==
    /\ cWords = <<>>
    /\ cInput = <<>>
    /\ cIdx = 0
    /\ cPc = "idle"
    /\ cLog = Brief(NoLog)

SegNext == ExtractWord \/ GroupEnter \/ GroupStep \/ GroupFinish
SegStart == SegInit /\ CoderIdle /\ WordIdle /\ ConnIdle /\ EngIdle
SegSpec == SegStart /\ [][SegNext]_vars

CoderNext == ProcessWord \/ ProcessSongReturn
CoderStart == CoderInit /\ SegIdle /\ WordIdle /\ ConnIdle /\ EngIdle
CoderSpec == CoderStart /\ [][CoderNext]_vars

WordNext == ProcessOneWord
WordStart == WordInit /\ SegIdle /\ CoderIdle /\ ConnIdle /\ EngIdle
WordSpec == WordStart /\ [][WordNext]_vars

ConnNext == ConnectEnter \/ MixWord \/ ConnectFinish
ConnStart == ConnInit /\ SegIdle /\ CoderIdle /\ WordIdle /\ EngIdle
ConnSpec == ConnStart /\ [][ConnNext]_vars

EngNext == DecodeScore \/ SynthesizeWord \/ SynthesizeReturn \/ CallStage
EngStart == EngInit /\ SegIdle /\ CoderIdle /\ WordIdle /\ ConnIdle
EngSpec == EngStart /\ [][EngNext]_vars

----------------------------------------------------------------------------
(***************************************************************************)
(* Segmenter: properties                                                   *)
(***************************************************************************)

\* the Words i and j are in the wordList of one Section
SamePhrase(i, j) ==
    \E s \in 1..Len(sections) :
        /\ \E k \in 1..Len(sections[s].wordList) : sections[s].wordList[k] = i
        /\ \E k \in 1..Len(sections[s].wordList) : sections[s].wordList[k] = j

\* C1: when the Segmenter succeeds, a consecutive input pair whose gap
\* next.start - prev.end (on the input times) exceeds the tolerance is split
\* over two Phrases, a pair whose gap is within the tolerance shares a Phrase,
\* and every Phrase is a run of consecutive input notes: a maximal continuous run.
C1_GapDecidesPhrase ==
    segPc = "done" =>
        /\ \A i \in 1..(Len(words) - 1) :
              LET gap == words[i + 1].start - words[i].end
              IN /\ (gap > TIME_TOLERANCE => ~SamePhrase(i, i + 1))
                 /\ (gap <= TIME_TOLERANCE => SamePhrase(i, i + 1))
        /\ \A s \in 1..Len(sections) :
              \A k \in 1..(Len(sections[s].wordList) - 1) :
                  sections[s].wordList[k + 1] = sections[s].wordList[k] + 1

\* a success with two Phrases, one of them holding a pair whose gap is exactly
\* the tolerance
C1_Witness ==
    /\ segPc = "done"
    /\ Len(sections) >= 2
    /\ \E i \in 1..(Len(words) - 1) :
          /\ words[i + 1].start - words[i].end = TIME_TOLERANCE
          /\ SamePhrase(i, i + 1)

\* C2: the Segmenter ends with the overlap error exactly when some consecutive
\* input pair has prev.end - next.start above the tolerance on the input times.
C2_OverlapErrorIff ==
    segPc \in {"done", "error"} =>
        ((segPc = "error") <=>
            \E i \in 1..(Len(words) - 1) :
                words[i].end - words[i + 1].start > TIME_TOLERANCE)

\* the overlap error raised after an earlier Phrase had its end times rewritten
C2_Witness ==
    /\ segPc = "error"
    /\ Len(sections) >= 1
    /\ wtime # words

\* C3: after a success, inside every Phrase each note ends exactly where the
\* next one starts, every start time is the input's, and the last note of every
\* Phrase keeps its input end time.
C3_Normalized ==
    segPc = "done" =>
        /\ \A s \in 1..Len(sections) :
              LET wl == sections[s].wordList
              IN /\ \A k \in 1..(Len(wl) - 1) : wtime[wl[k]].end = wtime[wl[k + 1]].start
                 /\ wtime[wl[Len(wl)]].end = words[wl[Len(wl)]].end
        /\ \A w \in 1..Len(words) : wtime[w].start = words[w].start

\* a success in which normalization rewrote some end time
C3_Witness ==
    /\ segPc = "done"
    /\ \E w \in 1..Len(words) : wtime[w].end # words[w].end

----------------------------------------------------------------------------
(***************************************************************************)
(* PitchRetargeter: properties                                             *)
(***************************************************************************)

\* the Word has a non-empty oriWave and a target pitch above 0
Retargetable(word) ==
    /\ word.oriWave # None
    /\ Len(Val(word.oriWave)) > 0
    /\ word.pitch # None
    /\ Val(word.pitch) > 0

\* C4: after _process_word on a Note with a non-empty rawWave and a positive
\* target pitch, whatever the vocoder did, shiftedWave is present and has as many
\* samples as rawWave.
C4_SameLength ==
    (pwPc # "call" /\ Retargetable(pwInput)) =>
        /\ pwWord.pitchedWave # None
        /\ Len(Val(pwWord.pitchedWave)) = Len(Val(pwInput.oriWave))

\* resynthesis returned fewer samples than rawWave has, and the call returned
C4_Witness ==
    /\ pwPc = "returned"
    /\ pwLog.path = "synth"
    /\ Len(Val(pwLog.y)) < Len(Val(pwInput.oriWave))
    /\ Len(Val(pwLog.y)) > 0

C6_FallbackCopies ==
    (cLog.failed \/ cLog.path = "unvoiced") =>
        /\ cPc # "raised"
        /\ cIdx >= 2
        /\ cWords[cIdx - 1].pitchedWave # None
        /\ cWords[cIdx - 1].pitchedWave = cInput[cIdx - 1].oriWave
        /\ cWords[cIdx - 1].oriWave = cInput[cIdx - 1].oriWave
        /\ cPc \in {"run", "done"}
        /\ (cPc = "run" /\ cIdx <= Len(cWords) => WordOutcomes[cWords[cIdx]] # {})

\* the first Word fell back to its rawWave and the second was resynthesized
C6_Witness ==
    /\ cIdx = 3
    /\ Retargetable(cInput[1])
    /\ cWords[1].pitchedWave = cInput[1].oriWave
    /\ cLog.path = "synth"
    /\ cWords[2].pitchedWave # cInput[2].oriWave

\* C7: _process_word on a Note whose target pitch is absent or <= 0, or whose
\* rawWave is absent, makes no vocoder call and leaves shiftedWave absent and
\* rawWave as it was; the assembler's source for the Note is then its rawWave.
C7_SkipLeavesAbsent ==
    (/\ pwPc # "call"
     /\ \/ pwInput.pitch = None
        \/ (pwInput.pitch # None /\ Val(pwInput.pitch) <= 0)
        \/ pwInput.oriWave = None) =>
        /\ pwPc = "returned"
        /\ pwLog.calls = <<>>
        /\ pwWord.pitchedWave = None
        /\ pwWord.oriWave = pwInput.oriWave
        /\ (pwInput.oriWave # None => source_wave(pwWord) = pwInput.oriWave)

\* a Note with a rawWave and the target pitch 0 went through _process_word
C7_Witness ==
    /\ pwPc = "returned"
    /\ pwInput.pitch = Some(0)
    /\ pwInput.oriWave # None
    /\ Len(Val(pwInput.oriWave)) > 0

----------------------------------------------------------------------------
(***************************************************************************)
(* OverlapAddAssembler: properties                                         *)
(***************************************************************************)

\* C8: for every Word mixed, the canvas it is mixed into is at least
\* start_idx + len(source) long, the canvas never gets shorter from one Word to
\* the next nor below its first size, every sample of the source is added, and
\* the canvas stored at the end still holds every source.
C8_CanvasHoldsSources ==
    /\ connPc # "raised"
    /\ \A k \in 1..Len(placed) :
          LET q == placed[k]
          IN /\ q.start_idx >= 0
             /\ q.end_idx = q.start_idx + Len(q.source)
             /\ q.canvasLen >= q.end_idx
             /\ Len(canvas) >= q.end_idx
             /\ Len(q.processed) = Len(q.source)
             /\ q.mixed = Len(q.source)
             /\ q.canvasLen >= total_samples(wordList[1].start,
                                             wordList[Len(wordList)].end, sample_rate)
             /\ (k > 1 => q.canvasLen >= placed[k - 1].canvasLen)
    /\ (placed # <<>> => Len(canvas) = placed[Len(placed)].canvasLen)
    /\ (connPc = "done" /\ wordList # <<>> => sectionSrc = Some(canvas))

\* a Section assembled from two sources, the canvas grown past its first size
C8_Witness ==
    /\ connPc = "done"
    /\ Len(placed) = 2
    /\ Len(Val(sectionSrc)) > total_samples(wordList[1].start,
                                            wordList[Len(wordList)].end, sample_rate)
    /\ placed[2].start_idx > 0

\* C9: whenever the declick envelope is applied (fade length >= 1, and the source
\* at least twice as long), the first and the last sample of the enveloped copy
\* are both 0.
C9_EndsAreZero ==
    \A k \in 1..Len(placed) :
        LET q == placed[k]
        IN (q.fade >= 1 /\ Len(q.source) >= 2 * q.fade) =>
              /\ q.processed[1] = 0
              /\ q.processed[Len(q.processed)] = 0

\* C10 as stated: the offset of every Word mixed is (start - base) * sample_rate
\* rounded to the nearest integer.
C10_OffsetIsRounded ==
    \A k \in 1..Len(placed) :
        LET q == placed[k]
            dt == wordList[q.word].start - wordList[1].start
        IN q.start_idx = RoundDiv(dt * sample_rate, TicksPerSec)

\* C10 as amended: the offset of every Word mixed is (start - base) * sample_rate
\* with its fraction cut off: offset <= (start - base) * sample_rate < offset + 1.
C10_OffsetIsTruncated ==
    \A k \in 1..Len(placed) :
        LET q == placed[k]
            dt == wordList[q.word].start - wordList[1].start
        IN /\ q.start_idx * TicksPerSec <= dt * sample_rate
           /\ dt * sample_rate < (q.start_idx + 1) * TicksPerSec

\* a Word mixed at an offset whose exact value has a fraction above one half,
\* in a Section that does not start at time 0
C10_Witness ==
    \E k \in 1..Len(placed) :
        LET q == placed[k]
            dt == wordList[q.word].start - wordList[1].start
        IN /\ 2 * ((dt * sample_rate) % TicksPerSec) > TicksPerSec
           /\ wordList[1].start > 0

\* C11: _connect_section leaves section.wordList as it found it: every Word's
\* oriWave and pitchedWave hold the samples they held at the call, also for a
\* fade length of 0 where the envelope returns the source itself, and every
\* Word's time and pitch are the same.  Only canvas and sectionSrc change.
C11_SourcesUntouched ==
    /\ Len(wordList) = Len(connInput)
    /\ \A i \in 1..Len(wordList) :
          /\ wordList[i].oriWave = connInput[i].oriWave
          /\ wordList[i].pitchedWave = connInput[i].pitchedWave
          /\ wordList[i].start = connInput[i].start
          /\ wordList[i].end = connInput[i].end
          /\ wordList[i].pitch = connInput[i].pitch

\* a finished call that mixed one Word whose envelope is the source itself
\* (fade length 0) and one Word whose enveloped copy differs from its source
C11_Witness ==
    /\ connPc = "done"
    /\ \E k \in 1..Len(placed) : placed[k].fade = 0
    /\ \E k \in 1..Len(placed) :
          placed[k].fade >= 1 /\ placed[k].processed # placed[k].source

----------------------------------------------------------------------------
(***************************************************************************)
(* PipelineOrchestrator: properties                                        *)
(***************************************************************************)

\* every collaborator does its work: the file is there, the decoder returns a
\* song, the TTS engine raises for no Word, and the three later stages succeed
NoCollaboratorFails ==
    /\ scoreExists
    /\ decoded # None
    /\ \A i \in 1..Len(Val(decoded)) : Val(decoded)[i].tts = "ok"
    /\ collab.retarget /\ collab.assemble /\ collab.export

\* C12: when no collaborator fails, process_score never ends in an exception,
\* it completes the stages in the order decode, synthesize, retarget,
\* assemble, export, each once, and what it returns is the exporter's path.
C12_FiveStagesInOrder ==
    NoCollaboratorFails =>
        /\ engPc # "raised"
        /\ \E k \in 0..5 :
              stagesDone = SubSeq(<<"decode", "synthesize", "retarget",
                                    "assemble", "export">>, 1, k)
        /\ (engPc = "returned" =>
               /\ Len(stagesDone) = 5
               /\ engResult = Some(OutputPath))

\* C13: a failure of the synthesizer on one Word does not end process_score:
\* when the TTS engine has raised for the Word at synthIdx the call is not
\* left by an exception, and once the call is over every Word was visited.
C13_NoteFailureRecovered ==
    /\ \A i \in 1..Len(song) :
          (song[i].tts = "raise" /\ synthIdx = i) => engPc # "raised"
    /\ (engPc \in {"returned", "raised"} /\ song # <<>>) => synthIdx > Len(song)

----------------------------------------------------------------------------
(***************************************************************************)
(* Segmenter: the overlap error and the partition                          *)
(***************************************************************************)

\* the positions p (1-based) of the input whose Words p and p + 1 overlap, by
\* the times the Words came with
OverlappingPairs ==
    {p \in 1..(Len(words) - 1) : IsOverlap(words[p].end, words[p + 1].start)}

\* C14: when the Segmenter raises the overlap error, the indices it reports
\* are (i, i + 1) with i the 0-based position, in the input sequence, of the
\* first overlapping consecutive pair, and the times are that pair's
\* previous end and next start.
C14_ErrorNamesInputPair ==
    segPc = "error" =>
        /\ OverlappingPairs # {}
        /\ LET p == CHOOSE p \in OverlappingPairs : \A q \in OverlappingPairs : p <= q
           IN /\ segErr.i = p - 1
              /\ segErr.j = p
              /\ segErr.end = words[p].end
              /\ segErr.start = words[p + 1].start

\* the wordLists of a sequence of Sections, one after the other
RECURSIVE ConcatWordLists(_)
ConcatWordLists(secs) ==
    IF secs = <<>> THEN <<>>
    ELSE secs[1].wordList \o ConcatWordLists(Tail(secs))

\* C16: when _group_words_to_sections returns, no Section is empty and the
\* wordLists of the Sections, one after the other, are the input Words in
\* their order, each once; no input gives no Section and a single Word gives
\* a single Section of that Word.
C16_SectionsPartitionInput ==
    segPc = "done" =>
        /\ \A k \in 1..Len(sections) : sections[k].wordList # <<>>
        /\ ConcatWordLists(sections) = [i \in 1..Len(words) |-> i]
        /\ Len(wtime) = Len(words)
        /\ (Len(words) = 0 => sections = <<>>)
        /\ (Len(words) = 1 => Len(sections) = 1 /\ sections[1].wordList = <<1>>)

\* a finished grouping of four Words into a Section of one Word and a Section
\* of several
C16_Witness ==
    /\ segPc = "done"
    /\ Len(words) = 4
    /\ Len(sections) >= 2
    /\ \E k \in 1..Len(sections) : Len(sections[k].wordList) = 1
    /\ \E k \in 1..Len(sections) : Len(sections[k].wordList) >= 2

----------------------------------------------------------------------------
(***************************************************************************)
(* OverlapAddAssembler: the mix                                            *)
(***************************************************************************)

\* what the k-th Word mixed adds at the canvas position j (1-based)
Contribution(k, j) ==
    LET q == placed[k]
    IN IF q.start_idx < j /\ j <= q.end_idx THEN q.processed[j - q.start_idx] ELSE 0

\* the sum of what the first n Words mixed add at the canvas position j
RECURSIVE OverlapAdd(_, _)
OverlapAdd(n, j) ==
    IF n = 0 THEN 0 ELSE OverlapAdd(n - 1, j) + Contribution(n, j)

\* C15: the canvas stored as sectionSrc is the overlap-add of the Words: the
\* Words mixed are those with a source that is not empty, each enveloped, and
\* every canvas position holds the sum of the enveloped samples of the Words
\* that cover it, 0 where none does; nothing is overwritten, clipped or
\* normalized.
C15_MixIsOverlapAdd ==
    (connPc = "done" /\ wordList # <<>>) =>
        /\ sectionSrc # None
        /\ \A i \in 1..Len(wordList) :
              (source_wave(wordList[i]) # None /\ Val(source_wave(wordList[i])) # <<>>)
                  <=> (\E k \in 1..Len(placed) : placed[k].word = i)
        /\ \A k \in 1..Len(placed) :
              /\ placed[k].source = Val(source_wave(wordList[placed[k].word]))
              /\ placed[k].processed =
                     apply_declick_envelope(placed[k].source, sample_rate)
              /\ \A m \in 1..(k - 1) : placed[m].word < placed[k].word
        /\ \A j \in 1..Len(Val(sectionSrc)) :
              Val(sectionSrc)[j] = OverlapAdd(Len(placed), j)

\* a finished Section where two sources overlap at a position both give a
\* sample other than 0 to, and where a position is covered by no source
C15_Witness ==
    /\ connPc = "done"
    /\ Len(placed) = 2
    /\ \E j \in 1..Len(canvas) : Contribution(1, j) # 0 /\ Contribution(2, j) # 0
    /\ \E j \in 1..Len(canvas) :
          \A k \in 1..2 : ~(placed[k].start_idx < j /\ j <= placed[k].end_idx)

====
